---- MODULE Spec2Model ----
(***************************************************************************)
(* Model of dependency_visualizer.py: the DependencyVisualizer object      *)
(* (configuration, VFS reference, command history), its entry point        *)
(* run_cli, the interactive menu, the configuration loader and the stage-2 *)
(* dependency analysis.                                                    *)
(*                                                                         *)
(* Python strings are sequences of one-character strings, so that strip(), *)
(* startswith(), lower() and the substring test are computed.  YAML values *)
(* are tagged with their Python type: [t |-> "str"|"int"|"bool", v |-> _]. *)
(***************************************************************************)
EXTENDS Integers, Sequences, FiniteSets, TLC

VARIABLES
    argv,             \* sys.argv[1:], a sequence of arguments
    pc,               \* "start" | "menu" | "shell" | "exited" | "crashed"
    exit_status,      \* <<>> while running, <<n>> once the process has ended
    config,           \* DependencyVisualizer.config
    vfs,              \* DependencyVisualizer.vfs: <<>> (None) or <<VirtualFileSystem>>
    command_history,  \* DependencyVisualizer.command_history
    out,              \* what the handler that ran last printed and looked up
    vfs_loaded        \* history: some load_vfs call has returned without raising

vars == <<argv, pc, exit_status, config, vfs, command_history, out, vfs_loaded>>

----------------------------------------------------------------------------
(* Bounds of the model *)

\* a configuration file holds at most this many recognized keys
MaxFileKeys == 2

\* the VFS shell history is followed up to this many entries
MaxHistory == 3

----------------------------------------------------------------------------
(* Python strings *)

\* A Python string is the sequence of its characters. An ASCII character is
\* written as itself; a character beyond ASCII, and the grave accent, is
\* written by its code point, "U+" and at least four hexadecimal digits
\* ("U+00A0"). The tables of characters below are those of the interpreter
\* (Unicode 14.0.0).
HexDigits ==
    <<"0", "1", "2", "3", "4", "5", "6", "7", "8", "9", "A", "B", "C", "D", "E", "F">>

RECURSIVE Hex(_)
Hex(n) == IF n < 16 THEN HexDigits[n + 1] ELSE Hex(n \div 16) \o HexDigits[(n % 16) + 1]

\* the character with code point n, n beyond ASCII
Chr(n) ==
    "U+" \o (IF n < 256 THEN "00" ELSE IF n < 4096 THEN "0" ELSE "") \o Hex(n)

\* c is written by its code point
ByCodePoint(c) == Len(c) > 1

\* the code points r[1], r[1] + r[3], ... up to r[2]
RunMembers(r) == {r[1] + k * r[3] : k \in 0..((r[2] - r[1]) \div r[3])}

\* c is a character of one of the runs
InRuns(c, runs) == \E r \in runs : \E n \in RunMembers(r) : Chr(n) = c

\* the code points beyond ASCII for which str.isspace() holds
SpaceCodePoints ==
    {133, 160, 5760, 8192, 8193, 8194, 8195, 8196, 8197, 8198, 8199, 8200,
     8201, 8202, 8232, 8233, 8239, 8287, 12288}

IsUnicodeSpace(c) == \E n \in SpaceCodePoints : Chr(n) = c

\* the ASCII characters int() skips around a number
AsciiSpaces == {" ", "\t", "\n", "\r", "\f", ""}

\* the characters str.strip() and str.rstrip() remove: in the ASCII range tab,
\* line feed, vertical tab, form feed, carriage return, the separators 1C-1F
\* and space
IsSpace(c) ==
    IF ByCodePoint(c) THEN IsUnicodeSpace(c)
    ELSE c \in AsciiSpaces \cup {"", "", "", ""}

RECURSIVE LStrip(_)
LStrip(s) == IF s # <<>> /\ IsSpace(Head(s)) THEN LStrip(Tail(s)) ELSE s

RECURSIVE RStrip(_)
RStrip(s) ==
    IF s # <<>> /\ IsSpace(s[Len(s)]) THEN RStrip(SubSeq(s, 1, Len(s) - 1)) ELSE s

\* str.strip()
Strip(s) == LStrip(RStrip(s))

\* str.rstrip('/')
RECURSIVE RStripSlash(_)
RStripSlash(s) ==
    IF s # <<>> /\ s[Len(s)] = "/" THEN RStripSlash(SubSeq(s, 1, Len(s) - 1)) ELSE s

\* str.startswith(p)
StartsWith(s, p) == Len(s) >= Len(p) /\ SubSeq(s, 1, Len(p)) = p

UpperLetters ==
    <<"A", "B", "C", "D", "E", "F", "G", "H", "I", "J", "K", "L", "M",
      "N", "O", "P", "Q", "R", "S", "T", "U", "V", "W", "X", "Y", "Z">>

LowerLetters ==
    <<"a", "b", "c", "d", "e", "f", "g", "h", "i", "j", "k", "l", "m",
      "n", "o", "p", "q", "r", "s", "t", "u", "v", "w", "x", "y", "z">>

\* the lower-case mapping beyond ASCII, in runs <<first, last, step, offset>>:
\* each code point of the run maps to the code point offset further on
LowerRuns ==
    {<<192, 214, 1, 32>>, <<216, 222, 1, 32>>, <<256, 302, 2, 1>>,
      <<306, 310, 2, 1>>, <<313, 327, 2, 1>>, <<330, 374, 2, 1>>,
      <<376, 376, 1, -121>>, <<377, 381, 2, 1>>, <<385, 385, 1, 210>>,
      <<386, 388, 2, 1>>, <<390, 390, 1, 206>>, <<391, 391, 1, 1>>,
      <<393, 394, 1, 205>>, <<395, 395, 1, 1>>, <<398, 398, 1, 79>>,
      <<399, 399, 1, 202>>, <<400, 400, 1, 203>>, <<401, 401, 1, 1>>,
      <<403, 403, 1, 205>>, <<404, 404, 1, 207>>, <<406, 406, 1, 211>>,
      <<407, 407, 1, 209>>, <<408, 408, 1, 1>>, <<412, 412, 1, 211>>,
      <<413, 413, 1, 213>>, <<415, 415, 1, 214>>, <<416, 420, 2, 1>>,
      <<422, 422, 1, 218>>, <<423, 423, 1, 1>>, <<425, 425, 1, 218>>,
      <<428, 428, 1, 1>>, <<430, 430, 1, 218>>, <<431, 431, 1, 1>>,
      <<433, 434, 1, 217>>, <<435, 437, 2, 1>>, <<439, 439, 1, 219>>,
      <<440, 440, 1, 1>>, <<444, 444, 1, 1>>, <<452, 452, 1, 2>>,
      <<453, 453, 1, 1>>, <<455, 455, 1, 2>>, <<456, 456, 1, 1>>,
      <<458, 458, 1, 2>>, <<459, 475, 2, 1>>, <<478, 494, 2, 1>>,
      <<497, 497, 1, 2>>, <<498, 500, 2, 1>>, <<502, 502, 1, -97>>,
      <<503, 503, 1, -56>>, <<504, 542, 2, 1>>, <<544, 544, 1, -130>>,
      <<546, 562, 2, 1>>, <<570, 570, 1, 10795>>, <<571, 571, 1, 1>>,
      <<573, 573, 1, -163>>, <<574, 574, 1, 10792>>, <<577, 577, 1, 1>>,
      <<579, 579, 1, -195>>, <<580, 580, 1, 69>>, <<581, 581, 1, 71>>,
      <<582, 590, 2, 1>>, <<880, 882, 2, 1>>, <<886, 886, 1, 1>>,
      <<895, 895, 1, 116>>, <<902, 902, 1, 38>>, <<904, 906, 1, 37>>,
      <<908, 908, 1, 64>>, <<910, 911, 1, 63>>, <<913, 929, 1, 32>>,
      <<931, 939, 1, 32>>, <<975, 975, 1, 8>>, <<984, 1006, 2, 1>>,
      <<1012, 1012, 1, -60>>, <<1015, 1015, 1, 1>>, <<1017, 1017, 1, -7>>,
      <<1018, 1018, 1, 1>>, <<1021, 1023, 1, -130>>, <<1024, 1039, 1, 80>>,
      <<1040, 1071, 1, 32>>, <<1120, 1152, 2, 1>>, <<1162, 1214, 2, 1>>,
      <<1216, 1216, 1, 15>>, <<1217, 1229, 2, 1>>, <<1232, 1326, 2, 1>>,
      <<1329, 1366, 1, 48>>, <<4256, 4293, 1, 7264>>,
      <<4295, 4295, 1, 7264>>, <<4301, 4301, 1, 7264>>,
      <<5024, 5103, 1, 38864>>, <<5104, 5109, 1, 8>>,
      <<7312, 7354, 1, -3008>>, <<7357, 7359, 1, -3008>>,
      <<7680, 7828, 2, 1>>, <<7838, 7838, 1, -7615>>, <<7840, 7934, 2, 1>>,
      <<7944, 7951, 1, -8>>, <<7960, 7965, 1, -8>>, <<7976, 7983, 1, -8>>,
      <<7992, 7999, 1, -8>>, <<8008, 8013, 1, -8>>, <<8025, 8031, 2, -8>>,
      <<8040, 8047, 1, -8>>, <<8072, 8079, 1, -8>>, <<8088, 8095, 1, -8>>,
      <<8104, 8111, 1, -8>>, <<8120, 8121, 1, -8>>, <<8122, 8123, 1, -74>>,
      <<8124, 8124, 1, -9>>, <<8136, 8139, 1, -86>>, <<8140, 8140, 1, -9>>,
      <<8152, 8153, 1, -8>>, <<8154, 8155, 1, -100>>, <<8168, 8169, 1, -8>>,
      <<8170, 8171, 1, -112>>, <<8172, 8172, 1, -7>>,
      <<8184, 8185, 1, -128>>, <<8186, 8187, 1, -126>>,
      <<8188, 8188, 1, -9>>, <<8486, 8486, 1, -7517>>,
      <<8491, 8491, 1, -8262>>, <<8498, 8498, 1, 28>>, <<8544, 8559, 1, 16>>,
      <<8579, 8579, 1, 1>>, <<9398, 9423, 1, 26>>, <<11264, 11311, 1, 48>>,
      <<11360, 11360, 1, 1>>, <<11362, 11362, 1, -10743>>,
      <<11363, 11363, 1, -3814>>, <<11364, 11364, 1, -10727>>,
      <<11367, 11371, 2, 1>>, <<11373, 11373, 1, -10780>>,
      <<11374, 11374, 1, -10749>>, <<11375, 11375, 1, -10783>>,
      <<11376, 11376, 1, -10782>>, <<11378, 11378, 1, 1>>,
      <<11381, 11381, 1, 1>>, <<11390, 11391, 1, -10815>>,
      <<11392, 11490, 2, 1>>, <<11499, 11501, 2, 1>>, <<11506, 11506, 1, 1>>,
      <<42560, 42604, 2, 1>>, <<42624, 42650, 2, 1>>, <<42786, 42798, 2, 1>>,
      <<42802, 42862, 2, 1>>, <<42873, 42875, 2, 1>>,
      <<42877, 42877, 1, -35332>>, <<42878, 42886, 2, 1>>,
      <<42891, 42891, 1, 1>>, <<42893, 42893, 1, -42280>>,
      <<42896, 42898, 2, 1>>, <<42902, 42920, 2, 1>>,
      <<42922, 42922, 1, -42308>>, <<42923, 42923, 1, -42319>>,
      <<42924, 42924, 1, -42315>>, <<42925, 42925, 1, -42305>>,
      <<42926, 42926, 1, -42308>>, <<42928, 42928, 1, -42258>>,
      <<42929, 42929, 1, -42282>>, <<42930, 42930, 1, -42261>>,
      <<42931, 42931, 1, 928>>, <<42932, 42946, 2, 1>>,
      <<42948, 42948, 1, -48>>, <<42949, 42949, 1, -42307>>,
      <<42950, 42950, 1, -35384>>, <<42951, 42953, 2, 1>>,
      <<42960, 42960, 1, 1>>, <<42966, 42968, 2, 1>>, <<42997, 42997, 1, 1>>,
      <<65313, 65338, 1, 32>>, <<66560, 66599, 1, 40>>,
      <<66736, 66771, 1, 40>>, <<66928, 66938, 1, 39>>,
      <<66940, 66954, 1, 39>>, <<66956, 66962, 1, 39>>,
      <<66964, 66965, 1, 39>>, <<68736, 68786, 1, 64>>,
      <<71840, 71871, 1, 32>>, <<93760, 93791, 1, 32>>,
      <<125184, 125217, 1, 34>>}

\* the lower case of a character beyond ASCII
LowerBeyondAscii(c) ==
    CHOOSE d \in UNION {IF images = {} THEN {c} ELSE images
                        : images \in {UNION {{Chr(n + r[4]) : n \in {m \in RunMembers(r) : Chr(m) = c}}
                                             : r \in LowerRuns}}} : TRUE

\* str.lower() of the one-character string c: A-Z, the Kelvin sign (its lower
\* case is the ASCII k), capital I with dot above (the one character whose
\* lower case is two characters), and the table
LowerChar(c) ==
    IF \E i \in 1..Len(UpperLetters) : UpperLetters[i] = c
    THEN <<LowerLetters[CHOOSE i \in 1..Len(UpperLetters) : UpperLetters[i] = c]>>
    ELSE IF c = "U+0130" THEN <<"i", "U+0307">>
    ELSE IF c = "U+212A" THEN <<"k">>
    ELSE IF ByCodePoint(c) THEN <<LowerBeyondAscii(c)>>
    ELSE <<c>>

\* the characters beyond ASCII with the property Case_Ignorable, in runs
\* <<first, last, step>>
CaseIgnorableRuns ==
    {<<168, 168, 1>>, <<173, 175, 2>>, <<180, 180, 1>>, <<183, 184, 1>>,
      <<688, 879, 1>>, <<884, 885, 1>>, <<890, 890, 1>>, <<900, 901, 1>>,
      <<903, 903, 1>>, <<1155, 1161, 1>>, <<1369, 1369, 1>>,
      <<1375, 1375, 1>>, <<1425, 1469, 1>>, <<1471, 1473, 2>>,
      <<1474, 1476, 2>>, <<1477, 1479, 2>>, <<1524, 1524, 1>>,
      <<1536, 1541, 1>>, <<1552, 1562, 1>>, <<1564, 1564, 1>>,
      <<1600, 1600, 1>>, <<1611, 1631, 1>>, <<1648, 1648, 1>>,
      <<1750, 1757, 1>>, <<1759, 1768, 1>>, <<1770, 1773, 1>>,
      <<1807, 1809, 2>>, <<1840, 1866, 1>>, <<1958, 1968, 1>>,
      <<2027, 2037, 1>>, <<2042, 2042, 1>>, <<2045, 2045, 1>>,
      <<2070, 2093, 1>>, <<2137, 2139, 1>>, <<2184, 2184, 1>>,
      <<2192, 2193, 1>>, <<2200, 2207, 1>>, <<2249, 2306, 1>>,
      <<2362, 2364, 2>>, <<2369, 2376, 1>>, <<2381, 2381, 1>>,
      <<2385, 2391, 1>>, <<2402, 2403, 1>>, <<2417, 2417, 1>>,
      <<2433, 2433, 1>>, <<2492, 2492, 1>>, <<2497, 2500, 1>>,
      <<2509, 2509, 1>>, <<2530, 2531, 1>>, <<2558, 2558, 1>>,
      <<2561, 2562, 1>>, <<2620, 2620, 1>>, <<2625, 2626, 1>>,
      <<2631, 2632, 1>>, <<2635, 2637, 1>>, <<2641, 2641, 1>>,
      <<2672, 2673, 1>>, <<2677, 2677, 1>>, <<2689, 2690, 1>>,
      <<2748, 2748, 1>>, <<2753, 2757, 1>>, <<2759, 2760, 1>>,
      <<2765, 2765, 1>>, <<2786, 2787, 1>>, <<2810, 2815, 1>>,
      <<2817, 2817, 1>>, <<2876, 2876, 1>>, <<2879, 2881, 2>>,
      <<2882, 2884, 1>>, <<2893, 2893, 1>>, <<2901, 2902, 1>>,
      <<2914, 2915, 1>>, <<2946, 2946, 1>>, <<3008, 3008, 1>>,
      <<3021, 3021, 1>>, <<3072, 3072, 1>>, <<3076, 3076, 1>>,
      <<3132, 3134, 2>>, <<3135, 3136, 1>>, <<3142, 3144, 1>>,
      <<3146, 3149, 1>>, <<3157, 3158, 1>>, <<3170, 3171, 1>>,
      <<3201, 3201, 1>>, <<3260, 3260, 1>>, <<3263, 3263, 1>>,
      <<3270, 3270, 1>>, <<3276, 3277, 1>>, <<3298, 3299, 1>>,
      <<3328, 3329, 1>>, <<3387, 3388, 1>>, <<3393, 3396, 1>>,
      <<3405, 3405, 1>>, <<3426, 3427, 1>>, <<3457, 3457, 1>>,
      <<3530, 3530, 1>>, <<3538, 3540, 1>>, <<3542, 3542, 1>>,
      <<3633, 3633, 1>>, <<3636, 3642, 1>>, <<3654, 3662, 1>>,
      <<3761, 3761, 1>>, <<3764, 3772, 1>>, <<3782, 3784, 2>>,
      <<3785, 3789, 1>>, <<3864, 3865, 1>>, <<3893, 3897, 2>>,
      <<3953, 3966, 1>>, <<3968, 3972, 1>>, <<3974, 3975, 1>>,
      <<3981, 3991, 1>>, <<3993, 4028, 1>>, <<4038, 4038, 1>>,
      <<4141, 4144, 1>>, <<4146, 4151, 1>>, <<4153, 4154, 1>>,
      <<4157, 4158, 1>>, <<4184, 4185, 1>>, <<4190, 4192, 1>>,
      <<4209, 4212, 1>>, <<4226, 4226, 1>>, <<4229, 4230, 1>>,
      <<4237, 4237, 1>>, <<4253, 4253, 1>>, <<4348, 4348, 1>>,
      <<4957, 4959, 1>>, <<5906, 5908, 1>>, <<5938, 5939, 1>>,
      <<5970, 5971, 1>>, <<6002, 6003, 1>>, <<6068, 6069, 1>>,
      <<6071, 6077, 1>>, <<6086, 6086, 1>>, <<6089, 6099, 1>>,
      <<6103, 6103, 1>>, <<6109, 6109, 1>>, <<6155, 6159, 1>>,
      <<6211, 6211, 1>>, <<6277, 6278, 1>>, <<6313, 6313, 1>>,
      <<6432, 6434, 1>>, <<6439, 6440, 1>>, <<6450, 6450, 1>>,
      <<6457, 6459, 1>>, <<6679, 6680, 1>>, <<6683, 6683, 1>>,
      <<6742, 6744, 2>>, <<6745, 6750, 1>>, <<6752, 6754, 2>>,
      <<6757, 6764, 1>>, <<6771, 6780, 1>>, <<6783, 6783, 1>>,
      <<6823, 6823, 1>>, <<6832, 6862, 1>>, <<6912, 6915, 1>>,
      <<6964, 6966, 2>>, <<6967, 6970, 1>>, <<6972, 6972, 1>>,
      <<6978, 6978, 1>>, <<7019, 7027, 1>>, <<7040, 7041, 1>>,
      <<7074, 7077, 1>>, <<7080, 7081, 1>>, <<7083, 7085, 1>>,
      <<7142, 7144, 2>>, <<7145, 7145, 1>>, <<7149, 7151, 2>>,
      <<7152, 7153, 1>>, <<7212, 7219, 1>>, <<7222, 7223, 1>>,
      <<7288, 7293, 1>>, <<7376, 7378, 1>>, <<7380, 7392, 1>>,
      <<7394, 7400, 1>>, <<7405, 7405, 1>>, <<7412, 7412, 1>>,
      <<7416, 7417, 1>>, <<7468, 7530, 1>>, <<7544, 7544, 1>>,
      <<7579, 7679, 1>>, <<8125, 8127, 2>>, <<8128, 8129, 1>>,
      <<8141, 8143, 1>>, <<8157, 8159, 1>>, <<8173, 8175, 1>>,
      <<8189, 8190, 1>>, <<8203, 8207, 1>>, <<8216, 8217, 1>>,
      <<8228, 8228, 1>>, <<8231, 8231, 1>>, <<8234, 8238, 1>>,
      <<8288, 8292, 1>>, <<8294, 8303, 1>>, <<8305, 8305, 1>>,
      <<8319, 8319, 1>>, <<8336, 8348, 1>>, <<8400, 8432, 1>>,
      <<11388, 11389, 1>>, <<11503, 11505, 1>>, <<11631, 11631, 1>>,
      <<11647, 11647, 1>>, <<11744, 11775, 1>>, <<11823, 11823, 1>>,
      <<12293, 12293, 1>>, <<12330, 12333, 1>>, <<12337, 12341, 1>>,
      <<12347, 12347, 1>>, <<12441, 12446, 1>>, <<12540, 12542, 1>>,
      <<40981, 40981, 1>>, <<42232, 42237, 1>>, <<42508, 42508, 1>>,
      <<42607, 42610, 1>>, <<42612, 42621, 1>>, <<42623, 42623, 1>>,
      <<42652, 42655, 1>>, <<42736, 42737, 1>>, <<42752, 42785, 1>>,
      <<42864, 42864, 1>>, <<42888, 42890, 1>>, <<42994, 42996, 1>>,
      <<43000, 43001, 1>>, <<43010, 43010, 1>>, <<43014, 43014, 1>>,
      <<43019, 43019, 1>>, <<43045, 43046, 1>>, <<43052, 43052, 1>>,
      <<43204, 43205, 1>>, <<43232, 43249, 1>>, <<43263, 43263, 1>>,
      <<43302, 43309, 1>>, <<43335, 43345, 1>>, <<43392, 43394, 1>>,
      <<43443, 43443, 1>>, <<43446, 43449, 1>>, <<43452, 43453, 1>>,
      <<43471, 43471, 1>>, <<43493, 43494, 1>>, <<43561, 43566, 1>>,
      <<43569, 43570, 1>>, <<43573, 43574, 1>>, <<43587, 43587, 1>>,
      <<43596, 43596, 1>>, <<43632, 43632, 1>>, <<43644, 43644, 1>>,
      <<43696, 43698, 2>>, <<43699, 43700, 1>>, <<43703, 43704, 1>>,
      <<43710, 43711, 1>>, <<43713, 43713, 1>>, <<43741, 43741, 1>>,
      <<43756, 43757, 1>>, <<43763, 43764, 1>>, <<43766, 43766, 1>>,
      <<43867, 43871, 1>>, <<43881, 43883, 1>>, <<44005, 44005, 1>>,
      <<44008, 44008, 1>>, <<44013, 44013, 1>>, <<64286, 64286, 1>>,
      <<64434, 64450, 1>>, <<65024, 65039, 1>>, <<65043, 65043, 1>>,
      <<65056, 65071, 1>>, <<65106, 65106, 1>>, <<65109, 65109, 1>>,
      <<65279, 65279, 1>>, <<65287, 65287, 1>>, <<65294, 65294, 1>>,
      <<65306, 65306, 1>>, <<65342, 65344, 2>>, <<65392, 65392, 1>>,
      <<65438, 65439, 1>>, <<65507, 65507, 1>>, <<65529, 65531, 1>>,
      <<66045, 66045, 1>>, <<66272, 66272, 1>>, <<66422, 66426, 1>>,
      <<67456, 67461, 1>>, <<67463, 67504, 1>>, <<67506, 67514, 1>>,
      <<68097, 68099, 1>>, <<68101, 68102, 1>>, <<68108, 68111, 1>>,
      <<68152, 68154, 1>>, <<68159, 68159, 1>>, <<68325, 68326, 1>>,
      <<68900, 68903, 1>>, <<69291, 69292, 1>>, <<69446, 69456, 1>>,
      <<69506, 69509, 1>>, <<69633, 69633, 1>>, <<69688, 69702, 1>>,
      <<69744, 69744, 1>>, <<69747, 69748, 1>>, <<69759, 69761, 1>>,
      <<69811, 69814, 1>>, <<69817, 69818, 1>>, <<69821, 69821, 1>>,
      <<69826, 69826, 1>>, <<69837, 69837, 1>>, <<69888, 69890, 1>>,
      <<69927, 69931, 1>>, <<69933, 69940, 1>>, <<70003, 70003, 1>>,
      <<70016, 70017, 1>>, <<70070, 70078, 1>>, <<70089, 70092, 1>>,
      <<70095, 70095, 1>>, <<70191, 70193, 1>>, <<70196, 70198, 2>>,
      <<70199, 70199, 1>>, <<70206, 70206, 1>>, <<70367, 70367, 1>>,
      <<70371, 70378, 1>>, <<70400, 70401, 1>>, <<70459, 70460, 1>>,
      <<70464, 70464, 1>>, <<70502, 70508, 1>>, <<70512, 70516, 1>>,
      <<70712, 70719, 1>>, <<70722, 70724, 1>>, <<70726, 70726, 1>>,
      <<70750, 70750, 1>>, <<70835, 70840, 1>>, <<70842, 70842, 1>>,
      <<70847, 70848, 1>>, <<70850, 70851, 1>>, <<71090, 71093, 1>>,
      <<71100, 71101, 1>>, <<71103, 71104, 1>>, <<71132, 71133, 1>>,
      <<71219, 71226, 1>>, <<71229, 71231, 2>>, <<71232, 71232, 1>>,
      <<71339, 71341, 2>>, <<71344, 71349, 1>>, <<71351, 71351, 1>>,
      <<71453, 71455, 1>>, <<71458, 71461, 1>>, <<71463, 71467, 1>>,
      <<71727, 71735, 1>>, <<71737, 71738, 1>>, <<71995, 71996, 1>>,
      <<71998, 71998, 1>>, <<72003, 72003, 1>>, <<72148, 72151, 1>>,
      <<72154, 72155, 1>>, <<72160, 72160, 1>>, <<72193, 72202, 1>>,
      <<72243, 72248, 1>>, <<72251, 72254, 1>>, <<72263, 72263, 1>>,
      <<72273, 72278, 1>>, <<72281, 72283, 1>>, <<72330, 72342, 1>>,
      <<72344, 72345, 1>>, <<72752, 72758, 1>>, <<72760, 72765, 1>>,
      <<72767, 72767, 1>>, <<72850, 72871, 1>>, <<72874, 72880, 1>>,
      <<72882, 72883, 1>>, <<72885, 72886, 1>>, <<73009, 73014, 1>>,
      <<73018, 73020, 2>>, <<73021, 73023, 2>>, <<73024, 73029, 1>>,
      <<73031, 73031, 1>>, <<73104, 73105, 1>>, <<73109, 73111, 2>>,
      <<73459, 73460, 1>>, <<78896, 78904, 1>>, <<92912, 92916, 1>>,
      <<92976, 92982, 1>>, <<92992, 92995, 1>>, <<94031, 94031, 1>>,
      <<94095, 94111, 1>>, <<94176, 94177, 1>>, <<94179, 94180, 1>>,
      <<110576, 110579, 1>>, <<110581, 110587, 1>>, <<110589, 110590, 1>>,
      <<113821, 113822, 1>>, <<113824, 113827, 1>>, <<118528, 118573, 1>>,
      <<118576, 118598, 1>>, <<119143, 119145, 1>>, <<119155, 119170, 1>>,
      <<119173, 119179, 1>>, <<119210, 119213, 1>>, <<119362, 119364, 1>>,
      <<121344, 121398, 1>>, <<121403, 121452, 1>>, <<121461, 121461, 1>>,
      <<121476, 121476, 1>>, <<121499, 121503, 1>>, <<121505, 121519, 1>>,
      <<122880, 122886, 1>>, <<122888, 122904, 1>>, <<122907, 122913, 1>>,
      <<122915, 122916, 1>>, <<122918, 122922, 1>>, <<123184, 123197, 1>>,
      <<123566, 123566, 1>>, <<123628, 123631, 1>>, <<125136, 125142, 1>>,
      <<125252, 125259, 1>>, <<127995, 127999, 1>>, <<917505, 917505, 1>>,
      <<917536, 917631, 1>>, <<917760, 917999, 1>>}

\* of the ASCII range: apostrophe, full stop, colon, circumflex and the grave
\* accent (which a string of a module cannot hold, hence its code point)
IsCaseIgnorable(c) ==
    \/ c \in {"'", ".", ":", "^", "U+0060"}
    \/ ByCodePoint(c) /\ InRuns(c, CaseIgnorableRuns)

\* the characters beyond ASCII with the property Cased, in runs
CasedRuns ==
    {<<170, 170, 1>>, <<181, 181, 1>>, <<186, 186, 1>>, <<192, 214, 1>>,
      <<216, 246, 1>>, <<248, 442, 1>>, <<444, 447, 1>>, <<452, 659, 1>>,
      <<661, 696, 1>>, <<704, 705, 1>>, <<736, 740, 1>>, <<837, 837, 1>>,
      <<880, 883, 1>>, <<886, 887, 1>>, <<890, 893, 1>>, <<895, 895, 1>>,
      <<902, 904, 2>>, <<905, 906, 1>>, <<908, 910, 2>>, <<911, 929, 1>>,
      <<931, 1013, 1>>, <<1015, 1153, 1>>, <<1162, 1327, 1>>,
      <<1329, 1366, 1>>, <<1376, 1416, 1>>, <<4256, 4293, 1>>,
      <<4295, 4295, 1>>, <<4301, 4301, 1>>, <<4304, 4346, 1>>,
      <<4349, 4351, 1>>, <<5024, 5109, 1>>, <<5112, 5117, 1>>,
      <<7296, 7304, 1>>, <<7312, 7354, 1>>, <<7357, 7359, 1>>,
      <<7424, 7615, 1>>, <<7680, 7957, 1>>, <<7960, 7965, 1>>,
      <<7968, 8005, 1>>, <<8008, 8013, 1>>, <<8016, 8023, 1>>,
      <<8025, 8031, 2>>, <<8032, 8061, 1>>, <<8064, 8116, 1>>,
      <<8118, 8124, 1>>, <<8126, 8126, 1>>, <<8130, 8132, 1>>,
      <<8134, 8140, 1>>, <<8144, 8147, 1>>, <<8150, 8155, 1>>,
      <<8160, 8172, 1>>, <<8178, 8180, 1>>, <<8182, 8188, 1>>,
      <<8305, 8305, 1>>, <<8319, 8319, 1>>, <<8336, 8348, 1>>,
      <<8450, 8450, 1>>, <<8455, 8455, 1>>, <<8458, 8467, 1>>,
      <<8469, 8469, 1>>, <<8473, 8477, 1>>, <<8484, 8490, 2>>,
      <<8491, 8493, 1>>, <<8495, 8500, 1>>, <<8505, 8505, 1>>,
      <<8508, 8511, 1>>, <<8517, 8521, 1>>, <<8526, 8526, 1>>,
      <<8544, 8575, 1>>, <<8579, 8580, 1>>, <<9398, 9449, 1>>,
      <<11264, 11492, 1>>, <<11499, 11502, 1>>, <<11506, 11507, 1>>,
      <<11520, 11557, 1>>, <<11559, 11559, 1>>, <<11565, 11565, 1>>,
      <<42560, 42605, 1>>, <<42624, 42653, 1>>, <<42786, 42887, 1>>,
      <<42891, 42894, 1>>, <<42896, 42954, 1>>, <<42960, 42961, 1>>,
      <<42963, 42965, 2>>, <<42966, 42969, 1>>, <<42997, 42998, 1>>,
      <<43000, 43002, 1>>, <<43824, 43866, 1>>, <<43868, 43880, 1>>,
      <<43888, 43967, 1>>, <<64256, 64262, 1>>, <<64275, 64279, 1>>,
      <<65313, 65338, 1>>, <<65345, 65370, 1>>, <<66560, 66639, 1>>,
      <<66736, 66771, 1>>, <<66776, 66811, 1>>, <<66928, 66938, 1>>,
      <<66940, 66954, 1>>, <<66956, 66962, 1>>, <<66964, 66965, 1>>,
      <<66967, 66977, 1>>, <<66979, 66993, 1>>, <<66995, 67001, 1>>,
      <<67003, 67004, 1>>, <<67456, 67456, 1>>, <<67459, 67461, 1>>,
      <<67463, 67504, 1>>, <<67506, 67514, 1>>, <<68736, 68786, 1>>,
      <<68800, 68850, 1>>, <<71840, 71903, 1>>, <<93760, 93823, 1>>,
      <<119808, 119892, 1>>, <<119894, 119964, 1>>, <<119966, 119967, 1>>,
      <<119970, 119970, 1>>, <<119973, 119974, 1>>, <<119977, 119980, 1>>,
      <<119982, 119993, 1>>, <<119995, 119997, 2>>, <<119998, 120003, 1>>,
      <<120005, 120069, 1>>, <<120071, 120074, 1>>, <<120077, 120084, 1>>,
      <<120086, 120092, 1>>, <<120094, 120121, 1>>, <<120123, 120126, 1>>,
      <<120128, 120132, 1>>, <<120134, 120134, 1>>, <<120138, 120144, 1>>,
      <<120146, 120485, 1>>, <<120488, 120512, 1>>, <<120514, 120538, 1>>,
      <<120540, 120570, 1>>, <<120572, 120596, 1>>, <<120598, 120628, 1>>,
      <<120630, 120654, 1>>, <<120656, 120686, 1>>, <<120688, 120712, 1>>,
      <<120714, 120744, 1>>, <<120746, 120770, 1>>, <<120772, 120779, 1>>,
      <<122624, 122633, 1>>, <<122635, 122654, 1>>, <<125184, 125251, 1>>,
      <<127280, 127305, 1>>, <<127312, 127337, 1>>, <<127344, 127369, 1>>}

IsCased(c) ==
    \/ \E i \in 1..Len(UpperLetters) : c \in {UpperLetters[i], LowerLetters[i]}
    \/ ByCodePoint(c) /\ InRuns(c, CasedRuns)

\* a capital sigma takes its final form after a cased character when no cased
\* character follows, characters that are case-ignorable being passed over
FinalSigma(s, i) ==
    \E stops \in {{j \in 1..Len(s) : j # i /\ ~IsCaseIgnorable(s[j])}} :
    \E cased \in {{j \in stops : IsCased(s[j])}} :
        /\ \E j \in stops : j < i /\ j \in cased /\ \A k \in stops : k < i => k <= j
        /\ \A j \in stops : (j > i /\ \A k \in stops : k > i => j <= k) => j \notin cased

\* what the character at position i of s becomes
LowerAt(s, i) ==
    IF s[i] = "U+03A3" /\ FinalSigma(s, i) THEN <<"U+03C2">> ELSE LowerChar(s[i])

RECURSIVE LowerFrom(_, _)
LowerFrom(s, i) == IF i > Len(s) THEN <<>> ELSE LowerAt(s, i) \o LowerFrom(s, i + 1)

\* str.lower()
Lower(s) == LowerFrom(s, 1)

\* sub in s
Contains(sub, s) ==
    \E i \in 0..(Len(s) - Len(sub)) : SubSeq(s, i + 1, i + Len(sub)) = sub

----------------------------------------------------------------------------
(* Python values read from YAML *)

PyStr(s)  == [t |-> "str",  v |-> s]
PyInt(n)  == [t |-> "int",  v |-> n]
PyBool(b) == [t |-> "bool", v |-> b]

\* isinstance(x, int): bool is a subclass of int
IsInstanceInt(x) == x.t \in {"int", "bool"}

\* the number an int (or bool) compares as
IntOf(x) == IF x.t = "bool" THEN (IF x.v THEN 1 ELSE 0) ELSE x.v

----------------------------------------------------------------------------
(* String constants of the program and of the modelled environment *)

HttpPrefix  == <<"h", "t", "t", "p", ":", "/", "/">>
HttpsPrefix == <<"h", "t", "t", "p", "s", ":", "/", "/">>

DefaultPackage == <<"r", "e", "q", "u", "e", "s", "t", "s">>
DefaultUrl == HttpsPrefix \o <<"p", "y", "p", "i", ".", "o", "r", "g", "/",
                               "s", "i", "m", "p", "l", "e", "/">>
DefaultTestPath == <<".", "/", "t", "e", "s", "t", "_", "r", "e", "p", "o">>

PkgA   == <<"a">>
PkgBox == <<"b", "o", "x">>
PkgCat == <<"c", "a", "t">>
PkgD   == <<"d">>
PkgZz  == <<"z", "z">>
\* a name that begins with a slash: after a repository_url of "http://" it
\* is the host m of the URL
PkgSlashM == <<"/", "m">>
\* the same host with its letter as a percent escape, and a fragment
PkgEscapedM == <<"/", "%", "6", "d", "#", "f">>

MissingPath == <<"/", "n", "o">>

Keys == {"package_name", "repository_url", "test_repository_path",
         "test_mode", "max_depth", "filter_substring"}

default_config ==
    [package_name         |-> DefaultPackage,
     repository_url       |-> DefaultUrl,
     test_repository_path |-> DefaultTestPath,
     test_mode            |-> FALSE,
     max_depth            |-> PyInt(3),
     filter_substring     |-> <<>>]

----------------------------------------------------------------------------
(* The environment: the file system and the configuration files offered *)

\* os.path.exists(path) for the paths a configuration may name
FsExists(path) == path = DefaultTestPath

\* the mapping yaml.safe_load returns for a file that holds no recognized key
EmptyMap == [k \in {} |-> PyInt(0)]

\* the values a file may give each key: well-typed and ill-typed, valid and invalid
YamlValues(k) ==
    CASE k = "package_name" ->
            {PyInt(5), PyStr(<<>>), PyStr(<<" ">>), PyStr(<<" ", "a", " ">>)}
      [] k = "repository_url" ->
            {PyInt(5), PyStr(<<>>), PyStr(<<"f", "t", "p">>), PyStr(HttpPrefix \o <<" ">>)}
      [] k = "test_repository_path" ->
            {PyInt(5), PyStr(<<>>), PyStr(MissingPath), PyStr(DefaultTestPath)}
      [] k = "test_mode" ->
            {PyBool(TRUE), PyBool(FALSE), PyStr(<<"y">>)}
      [] k = "max_depth" ->
            {PyInt(0), PyInt(1), PyInt(10), PyInt(11), PyBool(TRUE), PyBool(FALSE),
             PyStr(<<"3">>)}
      [] OTHER ->
            {PyInt(5), PyStr(<<>>), PyStr(<<"X">>)}

AllYamlValues == UNION {YamlValues(k) : k \in Keys}

\* the mappings a YAML file may hold
ConfigDicts ==
    UNION {{m \in [S -> AllYamlValues] : \A k \in S : m[k] \in YamlValues(k)} :
           S \in {T \in SUBSET Keys : Cardinality(T) <= MaxFileKeys}}

\* a path handed to load_config, described by what the loader finds there:
\*   "blank"    the empty path
\*   "missing"  no such file               "bad_ext"  not .yaml/.yml
\*   "bad_yaml" yaml.YAMLError             "empty"    safe_load returns None
\*   "scalar"   a number (no "in")         "list"     a list holding no key
\*   "dict"     the mapping m
ConfigFiles ==
    {[kind |-> k, m |-> EmptyMap] :
        k \in {"blank", "missing", "bad_ext", "bad_yaml", "empty", "scalar", "list"}}
    \cup {[kind |-> "dict", m |-> m] : m \in ConfigDicts}

----------------------------------------------------------------------------
(* _validate_and_apply_config and load_config *)

Raise(cur)  == [raised |-> TRUE,  config |-> cur]
Return(cur) == [raised |-> FALSE, config |-> cur]

ApplyPackageName(cur, m) ==
    IF "package_name" \notin DOMAIN m THEN Return(cur)
    ELSE LET package_name == m["package_name"] IN
         IF package_name.t # "str" THEN Raise(cur)
         ELSE IF Strip(package_name.v) = <<>> THEN Raise(cur)
         ELSE Return([cur EXCEPT !.package_name = Strip(package_name.v)])

ApplyRepositoryUrl(cur, m) ==
    IF "repository_url" \notin DOMAIN m THEN Return(cur)
    ELSE LET repo_url == m["repository_url"] IN
         IF repo_url.t # "str" THEN Raise(cur)
         ELSE IF repo_url.v # <<>>
                 /\ ~(StartsWith(repo_url.v, HttpPrefix) \/ StartsWith(repo_url.v, HttpsPrefix))
              THEN Raise(cur)
         ELSE Return([cur EXCEPT !.repository_url = RStrip(repo_url.v)])

ApplyTestRepositoryPath(cur, m) ==
    IF "test_repository_path" \notin DOMAIN m THEN Return(cur)
    ELSE LET test_path == m["test_repository_path"] IN
         IF test_path.t # "str" THEN Raise(cur)
         ELSE IF test_path.v # <<>> /\ ~FsExists(test_path.v) THEN Raise(cur)
         ELSE Return([cur EXCEPT !.test_repository_path = test_path.v])

ApplyTestMode(cur, m) ==
    IF "test_mode" \notin DOMAIN m THEN Return(cur)
    ELSE LET test_mode == m["test_mode"] IN
         IF test_mode.t # "bool" THEN Raise(cur)
         ELSE Return([cur EXCEPT !.test_mode = test_mode.v])

\* max_depth checked against the lower limit only
ApplyMaxDepthNoUpperLimit(cur, m) ==
    IF "max_depth" \notin DOMAIN m THEN Return(cur)
    ELSE LET max_depth == m["max_depth"] IN
         IF ~IsInstanceInt(max_depth) THEN Raise(cur)
         ELSE IF IntOf(max_depth) < 1 THEN Raise(cur)
         ELSE Return([cur EXCEPT !.max_depth = max_depth])

ApplyMaxDepth(cur, m) ==
    IF "max_depth" \notin DOMAIN m THEN Return(cur)
    ELSE LET max_depth == m["max_depth"] IN
         IF ~IsInstanceInt(max_depth) THEN Raise(cur)
         ELSE IF IntOf(max_depth) < 1 THEN Raise(cur)
         ELSE IF IntOf(max_depth) > 10 THEN Raise(cur)
         ELSE Return([cur EXCEPT !.max_depth = max_depth])

ApplyFilterSubstring(cur, m) ==
    IF "filter_substring" \notin DOMAIN m THEN Return(cur)
    ELSE LET filter_str == m["filter_substring"] IN
         IF filter_str.t # "str" THEN Raise(cur)
         ELSE Return([cur EXCEPT !.filter_substring = filter_str.v])

\* the two checks that tie the mode to its source
CheckModeSource(cur) ==
    IF cur.test_mode /\ cur.test_repository_path = <<>> THEN Raise(cur)
    ELSE IF ~cur.test_mode /\ cur.repository_url = <<>> THEN Raise(cur)
    ELSE Return(cur)

\* the block of _validate_and_apply_config for key k
ApplyKey(k, cur, m) ==
    CASE k = "package_name"         -> ApplyPackageName(cur, m)
      [] k = "repository_url"       -> ApplyRepositoryUrl(cur, m)
      [] k = "test_repository_path" -> ApplyTestRepositoryPath(cur, m)
      [] k = "test_mode"            -> ApplyTestMode(cur, m)
      [] k = "max_depth"            -> ApplyMaxDepth(cur, m)
      [] OTHER                      -> ApplyFilterSubstring(cur, m)

\* the order in which the code checks the keys
KeyOrder == <<"package_name", "repository_url", "test_repository_path",
              "test_mode", "max_depth", "filter_substring">>

\* the blocks for keys, then the mode checks, on the working copy cur;
\* a check that raises ends the sequence
RECURSIVE ApplySteps(_, _, _)
ApplySteps(keys, cur, m) ==
    IF keys = <<>> THEN CheckModeSource(cur)
    ELSE LET r == ApplyKey(Head(keys), cur, m) IN
         IF r.raised THEN r ELSE ApplySteps(Tail(keys), r.config, m)

ValidateFields(cfg, m) == ApplySteps(KeyOrder, cfg, m)

\* a loader that validates self.config in place instead of a copy
ValidateInPlace(cfg, m) == ValidateFields(cfg, m)

\* _validate_and_apply_config: self.config is replaced only when nothing raised
ValidateAndApplyConfig(cfg, m) ==
    LET r == ValidateFields(cfg, m) IN
    IF r.raised THEN Raise(cfg) ELSE Return(r.config)

\* load_config(path): [ok |-> the value returned, config |-> self.config afterwards]
LoadConfig(cfg, f) ==
    IF f.kind \in {"blank", "missing", "bad_ext", "bad_yaml", "empty", "scalar"}
    THEN [ok |-> FALSE, config |-> cfg]
    ELSE LET r == ValidateAndApplyConfig(cfg, f.m) IN
         [ok |-> ~r.raised, config |-> r.config]

----------------------------------------------------------------------------
(* The dependency providers: the package index and the fixture repository *)

\* what extract_dependencies_from_html and parse_requires_dist find in a page
Page(html, ld) == [html |-> html, ld |-> ld]

\* the pages the index serves under base URL base (already without trailing
\* '/'), by the name that follows the base in the URL
IndexPages(base) ==
    IF base = RStripSlash(DefaultUrl) THEN
        [n \in {DefaultPackage, PkgA, PkgBox, PkgCat, PkgD} |->
            CASE n = DefaultPackage -> Page({PkgA}, {PkgBox})
              [] n = PkgA   -> Page({PkgBox, PkgCat}, {PkgCat})
              [] n = PkgBox -> Page({}, {PkgD})
              [] OTHER      -> Page({}, {})]
    ELSE IF base = RStripSlash(HttpPrefix) THEN
        [n \in {PkgSlashM} |-> Page({PkgBox}, {})]
    ELSE [n \in {} |-> Page({}, {})]

NoPage == Page({}, {})

Failure(kind) == [kind |-> kind, page |-> NoPage]

\* the URL fetch_package_page asks for
RequestUrl(cfg, package_name) ==
    RStripSlash(cfg.repository_url) \o <<"/">> \o package_name \o <<"/">>

\* Request: the URL without its fragment, which begins at the last "#"
WithoutFragment(url) ==
    LET marks == {i \in 1..Len(url) : url[i] = "#"} IN
    IF marks = {} THEN url
    ELSE SubSeq(url, 1, (CHOOSE i \in marks : \A j \in marks : j <= i) - 1)

\* Request: the scheme of the URL ends at its first colon, with one character
\* or more before it and no slash among them; the set is empty for a URL
\* without a scheme
SchemeEnd(url) ==
    LET u == WithoutFragment(url) IN
    {k \in 2..Len(u) : /\ u[k] = ":"
                       /\ \A j \in 1..(k - 1) : u[j] \notin {"/", ":"}}

\* Request.type of a URL that has a scheme: the scheme in lower case
UrlScheme(url) == Lower(SubSeq(url, 1, (CHOOSE k \in SchemeEnd(url) : TRUE) - 1))

\* what follows the scheme and its colon, without the fragment
UrlRest(url) ==
    LET u == WithoutFragment(url) IN
    SubSeq(u, (CHOOSE k \in SchemeEnd(url) : TRUE) + 1, Len(u))

\* where the host ends in what follows the scheme: before the first "/", "?"
\* or "#" after the leading "//", or with the URL
HostEnd(rest) ==
    LET ends == {i \in 3..Len(rest) : rest[i] \in {"/", "?", "#"}} IN
    IF ends = {} THEN Len(rest) ELSE (CHOOSE i \in ends : \A j \in ends : i <= j) - 1

\* the characters of the codes 0 to 127; a control character without a
\* written form, and the backquote, are written by code point
AsciiChars ==
    <<"U+0000", "U+0001", "U+0002", "U+0003", "U+0004", "U+0005", "U+0006", "U+0007",
      "U+0008", "\t", "\n", "", "\f", "\r", "U+000E", "U+000F",
      "U+0010", "U+0011", "U+0012", "U+0013", "U+0014", "U+0015", "U+0016", "U+0017",
      "U+0018", "U+0019", "U+001A", "U+001B", "", "", "", "",
      " ", "!", "\"", "#", "$", "%", "&", "'",
      "(", ")", "*", "+", ",", "-", ".", "/",
      "0", "1", "2", "3", "4", "5", "6", "7",
      "8", "9", ":", ";", "<", "=", ">", "?",
      "@", "A", "B", "C", "D", "E", "F", "G",
      "H", "I", "J", "K", "L", "M", "N", "O",
      "P", "Q", "R", "S", "T", "U", "V", "W",
      "X", "Y", "Z", "[", "\\", "]", "^", "_",
      "U+0060", "a", "b", "c", "d", "e", "f", "g",
      "h", "i", "j", "k", "l", "m", "n", "o",
      "p", "q", "r", "s", "t", "u", "v", "w",
      "x", "y", "z", "{", "|", "}", "~", "U+007F">>

\* the value of a hexadecimal digit, -1 for any other character
HexValue(c) ==
    IF \E i \in 1..16 : HexDigits[i] = c THEN (CHOOSE i \in 1..16 : HexDigits[i] = c) - 1
    ELSE IF \E i \in 1..6 : LowerLetters[i] = c
    THEN (CHOOSE i \in 1..6 : LowerLetters[i] = c) + 9
    ELSE -1

\* the byte written at position i of s by a percent sign and two hexadecimal
\* digits, -1 where no such escape begins
ByteAt(s, i) ==
    IF i + 2 <= Len(s) /\ s[i] = "%" /\ HexValue(s[i + 1]) >= 0 /\ HexValue(s[i + 2]) >= 0
    THEN HexValue(s[i + 1]) * 16 + HexValue(s[i + 2])
    ELSE -1

\* the second byte is one that may follow the first byte b of a character of
\* UTF-8
SecondByteFits(b, c) ==
    IF b = 224 THEN c \in 160..191
    ELSE IF b = 237 THEN c \in 128..159
    ELSE IF b = 240 THEN c \in 144..191
    ELSE IF b = 244 THEN c \in 128..143
    ELSE c \in 128..191

\* decoding (UTF-8, errors replaced by U+FFFD) of the escaped bytes that begin
\* at position i of s: the character, and the number of escapes it takes
DecodeAt(s, i) ==
    LET b  == ByteAt(s, i)
        c1 == ByteAt(s, i + 3)
        c2 == ByteAt(s, i + 6)
        c3 == ByteAt(s, i + 9)
        more == IF b \in 194..223 THEN 1 ELSE IF b \in 224..239 THEN 2
                ELSE IF b \in 240..244 THEN 3 ELSE 0
    IN  IF b < 128 THEN [char |-> AsciiChars[b + 1], escapes |-> 1]
        ELSE IF more = 0 \/ ~SecondByteFits(b, c1) THEN [char |-> Chr(65533), escapes |-> 1]
        ELSE IF more = 1 THEN [char |-> Chr((b - 192) * 64 + (c1 - 128)), escapes |-> 2]
        ELSE IF c2 \notin 128..191 THEN [char |-> Chr(65533), escapes |-> 2]
        ELSE IF more = 2
             THEN [char |-> Chr((b - 224) * 4096 + (c1 - 128) * 64 + (c2 - 128)),
                   escapes |-> 3]
        ELSE IF c3 \notin 128..191 THEN [char |-> Chr(65533), escapes |-> 3]
        ELSE [char |-> Chr((b - 240) * 262144 + (c1 - 128) * 4096
                           + (c2 - 128) * 64 + (c3 - 128)),
              escapes |-> 4]

\* urllib.parse.unquote
RECURSIVE UnquoteFrom(_, _)
UnquoteFrom(s, i) ==
    IF i > Len(s) THEN <<>>
    ELSE IF ByteAt(s, i) < 0 THEN <<s[i]>> \o UnquoteFrom(s, i + 1)
    ELSE <<DecodeAt(s, i).char>> \o UnquoteFrom(s, i + 3 * DecodeAt(s, i).escapes)

Unquote(s) == UnquoteFrom(s, 1)

\* Request.host of a URL with a scheme: what follows the "//" after the
\* scheme, up to the next "/", "?" or "#", with its percent escapes decoded;
\* <<>> without "//" or with nothing after it
UrlHost(url) ==
    LET rest == UrlRest(url) IN
    IF ~StartsWith(rest, <<"/", "/">>) THEN <<>>
    ELSE Unquote(SubSeq(rest, 3, HostEnd(rest)))

\* Request.selector of a URL with a scheme and a host: what follows the
\* host, after a "/" when it begins with another character
UrlSelector(url) ==
    LET rest == UrlRest(url)
        path == SubSeq(rest, HostEnd(rest) + 1, Len(rest))
    IN  IF path # <<>> /\ Head(path) # "/" THEN <<"/">> \o path ELSE path

\* the request sent for a URL with a scheme and a host: where it goes and the
\* path of its request line, "/" for an empty selector
WireRequest(url) ==
    LET selector == UrlSelector(url) IN
    [scheme |-> UrlScheme(url), host |-> UrlHost(url),
     path |-> IF selector = <<>> THEN <<"/">> ELSE selector]

\* the base URLs under which IndexPages has pages
IndexBases == {RStripSlash(DefaultUrl), RStripSlash(HttpPrefix)}

\* the pages of IndexPages by the request that asks for them
ServedPages ==
    {[request |-> WireRequest(RequestUrl([repository_url |-> b], n)),
      page |-> IndexPages(b)[n]] :
        <<b, n>> \in UNION {{<<base, name>> : name \in DOMAIN IndexPages(base)} :
                              base \in IndexBases}}

\* the page served for the request of url, <<>> when there is none: the page
\* IndexPages has under a base and a name whose URL is asked for by the same
\* request
ServedPage(url) ==
    IF SchemeEnd(url) = {} THEN <<>>
    ELSE IF UrlHost(url) = <<>> THEN <<>>
    ELSE LET request == WireRequest(url)
             hits == {p \in ServedPages : p.request = request}
         IN  IF hits = {} THEN <<>> ELSE <<(CHOOSE p \in hits : TRUE).page>>

\* what Request, urlopen and read().decode() may do for package_name under cfg:
\*   "ok"        status 200, the page is read and decoded
\*   "non200"    a response whose status is not 200
\*   "HTTPError" urllib.error.HTTPError (404 for a package the index lacks)
\*   "URLError"  urllib.error.URLError (no route, timeout, no host given)
\*   "Exception" anything else (ValueError for a URL without a scheme,
\*               InvalidURL for one with a space or a bad port, a decoding
\*               error)
\*   "KeyboardInterrupt"  SIGINT while urlopen waits for the server
\* A URL without a scheme (an empty repository_url: the URL begins with "/")
\* and a URL without a host (a repository_url of "http://" or "https://" loses
\* its slashes, and the name does not bring a host) are refused before a
\* request is sent. Any other URL may end in each of the failures, whatever
\* the name, and in the page of the request it makes; the scheme is http or
\* https, the validation of lines 172-178 lets no other through.
Outcomes(cfg, package_name) ==
    LET url == RequestUrl(cfg, package_name)
        page == ServedPage(url)
    IN  IF SchemeEnd(url) = {} THEN {Failure("Exception")}
        ELSE IF UrlHost(url) = <<>> THEN {Failure("URLError")}
        ELSE {Failure(k) : k \in {"non200", "HTTPError", "URLError", "Exception",
                                  "KeyboardInterrupt"}}
             \cup (IF page = <<>> THEN {} ELSE {[kind |-> "ok", page |-> page[1]]})

\* a fetch whose last except clause is missing: other exceptions propagate
FetchPackagePageUncaught(outcome) ==
    CASE outcome.kind = "ok"        -> [raised |-> FALSE, content |-> <<outcome.page>>]
      [] outcome.kind = "non200"    -> [raised |-> FALSE, content |-> <<>>]
      [] outcome.kind = "HTTPError" -> [raised |-> FALSE, content |-> <<>>]
      [] outcome.kind = "URLError"  -> [raised |-> FALSE, content |-> <<>>]
      [] OTHER                      -> [raised |-> TRUE,  content |-> <<>>]

\* fetch_package_page: content is <<page>>, or <<>> for None; "except Exception"
\* does not catch KeyboardInterrupt
FetchPackagePage(outcome) ==
    CASE outcome.kind = "ok"        -> [raised |-> FALSE, content |-> <<outcome.page>>]
      [] outcome.kind = "non200"    -> [raised |-> FALSE, content |-> <<>>]
      [] outcome.kind = "HTTPError" -> [raised |-> FALSE, content |-> <<>>]
      [] outcome.kind = "URLError"  -> [raised |-> FALSE, content |-> <<>>]
      [] outcome.kind = "KeyboardInterrupt" -> [raised |-> TRUE, content |-> <<>>]
      [] OTHER                      -> [raised |-> FALSE, content |-> <<>>]

extract_dependencies_from_html(page) == page.html

parse_requires_dist(page) == page.ld

\* the setup.py files Path(path).rglob('setup.py') finds: the directory each
\* lies in, whether it can be read, and the names its install_requires lists.
\* An empty path is the working directory, which holds the fixture repository.
FsSetupFiles(path) ==
    IF path \in {DefaultTestPath, <<>>} THEN
        {[dir |-> PkgA,   readable |-> TRUE,  requires |-> {PkgBox, PkgCat}],
         [dir |-> PkgCat, readable |-> TRUE,  requires |-> {}],
         [dir |-> PkgD,   readable |-> FALSE, requires |-> {PkgZz}]}
    ELSE {}

\* analyze_test_repository: package_name is not used
AnalyzeTestRepository(cfg, package_name) ==
    UNION {f.requires : f \in {g \in FsSetupFiles(cfg.test_repository_path) : g.readable}}

\* the filter of get_direct_dependencies
FilterDeps(all_deps, filter_substring) ==
    IF filter_substring # <<>>
    THEN {dep \in all_deps : Contains(Lower(filter_substring), Lower(dep))}
    ELSE all_deps

\* get_direct_dependencies: the list returned (as a set), the names looked up
\* and the outcome of the network request made, "none" without one
GetDirectDependencies(cfg, package_name, outcome) ==
    IF package_name = <<>> THEN
        [raised |-> FALSE, deps |-> {}, looked_up |-> {}, net |-> "none"]
    ELSE IF cfg.test_mode THEN
        [raised |-> FALSE, deps |-> AnalyzeTestRepository(cfg, package_name),
         looked_up |-> {package_name}, net |-> "none"]
    ELSE
        LET html_content == FetchPackagePage(outcome) IN
        IF html_content.raised THEN
            [raised |-> TRUE, deps |-> {}, looked_up |-> {package_name}, net |-> outcome.kind]
        ELSE IF html_content.content # <<>> THEN
            LET page == html_content.content[1]
                all_deps == extract_dependencies_from_html(page) \cup parse_requires_dist(page)
            IN  [raised |-> FALSE, deps |-> FilterDeps(all_deps, cfg.filter_substring),
                 looked_up |-> {package_name}, net |-> outcome.kind]
        ELSE
            [raised |-> FALSE, deps |-> {}, looked_up |-> {package_name}, net |-> outcome.kind]

----------------------------------------------------------------------------
(* Output of a handler: the messages printed, and for an analysis the       *)
(* dependencies printed, the names looked up and the network outcome        *)

Printed(msgs) == [msgs |-> msgs, deps |-> {}, looked_up |-> {}, net |-> "none"]

Said(o, msg) == \E i \in 1..Len(o.msgs) : o.msgs[i] = msg

\* the exit status of the interpreter ended by an exception nothing caught:
\* 1 with the traceback, but death by SIGINT for KeyboardInterrupt, which a
\* shell reports as 128 + 2
UncaughtStatus(exception) == IF exception = "KeyboardInterrupt" THEN <<130>> ELSE <<1>>

\* run_stage2: [raised, out]
RunStage2(cfg, outcome) ==
    IF cfg.package_name = <<>> THEN
        [raised |-> FALSE, out |-> Printed(<<"stage2", "no_package_name">>)]
    ELSE
        LET r == GetDirectDependencies(cfg, cfg.package_name, outcome) IN
        [raised |-> r.raised,
         out |-> [msgs |-> IF r.raised THEN <<"stage2", "traceback">>
                           ELSE IF r.deps = {} THEN <<"stage2", "no_dependencies_found">>
                           ELSE <<"stage2", "dependencies">>,
                  deps |-> r.deps, looked_up |-> r.looked_up, net |-> r.net]]

----------------------------------------------------------------------------
(* The command line *)

InteractiveArg == [kind |-> "interactive", m |-> EmptyMap]

\* sys.argv[1:]: nothing, --interactive, a configuration file, or too many
ArgvChoices ==
    {<<>>, <<InteractiveArg>>, <<InteractiveArg, InteractiveArg>>}
    \cup {<<f>> : f \in ConfigFiles}

\* a run_cli that reports a failed load and goes on to the stages
RunCliConfigNoExit(cfg, f, outcome) ==
    LET l  == LoadConfig(cfg, f)
        s2 == RunStage2(l.config, outcome)
    IN  [pc |-> IF s2.raised THEN "crashed" ELSE "exited",
         exit_status |-> IF s2.raised THEN UncaughtStatus(s2.out.net) ELSE <<0>>,
         config |-> l.config,
         out |-> [s2.out EXCEPT !.msgs =
                    (IF l.ok THEN <<>> ELSE <<"config_error", "load_failed">>)
                    \o <<"stage1">> \o @]]

\* run_cli with a configuration file: load_config, then stage 1 and stage 2
RunCliConfig(cfg, f, outcome) ==
    LET l == LoadConfig(cfg, f) IN
    IF ~l.ok THEN
        [pc |-> "exited", exit_status |-> <<1>>, config |-> l.config,
         out |-> Printed(<<"config_error", "load_failed">>)]
    ELSE
        LET s2 == RunStage2(l.config, outcome) IN
        [pc |-> IF s2.raised THEN "crashed" ELSE "exited",
         exit_status |-> IF s2.raised THEN UncaughtStatus(s2.out.net) ELSE <<0>>,
         config |-> l.config,
         out |-> [s2.out EXCEPT !.msgs = <<"stage1">> \o @]]

\* __main__ without arguments: the usage text, run_cli is not called
MainNoArguments ==
    /\ pc = "start" /\ Len(argv) = 0
    /\ pc' = "exited" /\ exit_status' = <<0>>
    /\ out' = Printed(<<"usage">>)
    /\ UNCHANGED <<argv, config, vfs, command_history, vfs_loaded>>

\* run_cli: len(sys.argv) != 2
RunCliUsage ==
    /\ pc = "start" /\ Len(argv) > 1
    /\ pc' = "exited" /\ exit_status' = <<1>>
    /\ out' = Printed(<<"usage">>)
    /\ UNCHANGED <<argv, config, vfs, command_history, vfs_loaded>>

\* run_cli: --interactive
RunCliInteractive ==
    /\ pc = "start" /\ Len(argv) = 1 /\ argv[1].kind = "interactive"
    /\ pc' = "menu"
    /\ out' = Printed(<<"interactive">>)
    /\ UNCHANGED <<argv, exit_status, config, vfs, command_history, vfs_loaded>>

\* run_cli: a configuration file
RunCliFile ==
    /\ pc = "start" /\ Len(argv) = 1 /\ argv[1].kind # "interactive"
    /\ LET l == LoadConfig(config, argv[1]) IN
       \E outcome \in Outcomes(l.config, l.config.package_name) :
          LET r == RunCliConfig(config, argv[1], outcome) IN
          /\ pc' = r.pc
          /\ exit_status' = r.exit_status
          /\ config' = r.config
          /\ out' = r.out
    /\ UNCHANGED <<argv, vfs, command_history, vfs_loaded>>

----------------------------------------------------------------------------
(* The interactive menu: configuration and analysis commands *)

AsciiDigits == <<"0", "1", "2", "3", "4", "5", "6", "7", "8", "9">>

\* the code points beyond ASCII of the digits zero of the decimal digits (Nd);
\* the nine code points after each are its digits 1 to 9
DecimalZeros ==
    {1632, 1776, 1984, 2406, 2534, 2662, 2790, 2918, 3046, 3174, 3302, 3430,
     3558, 3664, 3792, 3872, 4160, 4240, 6112, 6160, 6470, 6608, 6784, 6800,
     6992, 7088, 7232, 7248, 42528, 43216, 43264, 43472, 43504, 43600, 44016,
     65296, 66720, 68912, 69734, 69872, 69942, 70096, 70384, 70736, 70864,
     71248, 71360, 71472, 71904, 72016, 72784, 73040, 73120, 92768, 92864,
     93008, 120782, 120792, 120802, 120812, 120822, 123200, 123632, 125264,
     130032}

\* c is the digit k of one of the decimal digit sets beyond ASCII
IsUnicodeDigit(c, k) == \E z \in DecimalZeros : Chr(z + k) = c

IsDigit(c) ==
    \/ \E i \in 1..Len(AsciiDigits) : AsciiDigits[i] = c
    \/ ByCodePoint(c) /\ \E k \in 0..9 : IsUnicodeDigit(c, k)

DigitVal(c) ==
    IF \E i \in 1..Len(AsciiDigits) : AsciiDigits[i] = c
    THEN (CHOOSE i \in 1..Len(AsciiDigits) : AsciiDigits[i] = c) - 1
    ELSE CHOOSE k \in 0..9 : IsUnicodeDigit(c, k)

\* the value of a digit string; an underscore between digits adds nothing
RECURSIVE DigitsValue(_)
DigitsValue(s) ==
    IF s = <<>> THEN 0
    ELSE IF s[Len(s)] = "_" THEN DigitsValue(SubSeq(s, 1, Len(s) - 1))
    ELSE DigitsValue(SubSeq(s, 1, Len(s) - 1)) * 10 + DigitVal(s[Len(s)])

\* the digits from the first that is not a zero on: the zeros before it, and
\* the underscores among them, add nothing to the value
Significant(body) ==
    IF \A i \in 1..Len(body) : body[i] = "_" \/ DigitVal(body[i]) = 0 THEN <<>>
    ELSE SubSeq(body,
                CHOOSE i \in 1..Len(body) :
                    /\ body[i] # "_" /\ DigitVal(body[i]) # 0
                    /\ \A j \in 1..(i - 1) : body[j] = "_" \/ DigitVal(body[j]) = 0,
                Len(body))

\* digits, with single underscores allowed between two digits
IsDigitString(body) ==
    /\ body # <<>>
    /\ IsDigit(body[1]) /\ IsDigit(body[Len(body)])
    /\ \A i \in 1..Len(body) : IsDigit(body[i]) \/ body[i] = "_"
    /\ \A i \in 1..(Len(body) - 1) : ~(body[i] = "_" /\ body[i + 1] = "_")

\* sys.int_info.default_max_str_digits: int() refuses a longer number
MaxStrDigits == 4300

\* the white space int() skips: not the separators 1C-1F
IsIntSpace(c) == IF ByCodePoint(c) THEN IsUnicodeSpace(c) ELSE c \in AsciiSpaces

RECURSIVE LStripInt(_)
LStripInt(s) == IF s # <<>> /\ IsIntSpace(Head(s)) THEN LStripInt(Tail(s)) ELSE s

RECURSIVE RStripInt(_)
RStripInt(s) ==
    IF s # <<>> /\ IsIntSpace(s[Len(s)]) THEN RStripInt(SubSeq(s, 1, Len(s) - 1)) ELSE s

\* int(text): surrounding white space, an optional sign, decimal digits with
\* single underscores between them; ok is FALSE where int raises ValueError
ParseInt(text) ==
    LET s    == LStripInt(RStripInt(text))
        neg  == s # <<>> /\ Head(s) = "-"
        body == IF s # <<>> /\ Head(s) \in {"+", "-"} THEN Tail(s) ELSE s
    IN  IF IsDigitString(body)
           /\ Cardinality({i \in 1..Len(body) : body[i] # "_"}) <= MaxStrDigits
        THEN [ok |-> TRUE, v |-> DigitsValue(Significant(body)) * (IF neg THEN -1 ELSE 1)]
        ELSE [ok |-> FALSE, v |-> 0]

\* lines typed at the prompts of commands 3, 5 and 6
NameInputs   == {<<>>, <<"U+00A0">>, <<" ", "a">>, PkgCat \o <<"\r">>, PkgEscapedM}
DepthInputs  ==
    {<<>>, <<"x">>, <<"0">>, <<"\f", "U+0661", "_", "0", "U+2003">>, <<"1", "1">>, <<"-", "1">>}
FilterInputs == {<<>>, <<" ", "X", " ">>}

\* command 3 storing the line as typed
ChangePackageUnstripped(cfg, line) ==
    IF Strip(line) # <<>>
    THEN [config |-> [cfg EXCEPT !.package_name = line], msg |-> "package_changed"]
    ELSE [config |-> cfg, msg |-> "package_name_empty"]

\* command 3
ChangePackage(cfg, line) ==
    LET new_package == Strip(line) IN
    IF new_package # <<>>
    THEN [config |-> [cfg EXCEPT !.package_name = new_package], msg |-> "package_changed"]
    ELSE [config |-> cfg, msg |-> "package_name_empty"]

\* command 4
ToggleTestMode(cfg) ==
    LET c == [cfg EXCEPT !.test_mode = ~cfg.test_mode] IN
    [config |-> c,
     msgs |-> IF c.test_mode THEN <<"mode_changed", "check_test_repository_path">>
              ELSE <<"mode_changed">>]

\* command 5
ChangeDepth(cfg, line) ==
    LET new_depth == ParseInt(line) IN
    IF ~new_depth.ok THEN [config |-> cfg, msg |-> "bad_number"]
    ELSE IF 1 <= new_depth.v /\ new_depth.v <= 10
         THEN [config |-> [cfg EXCEPT !.max_depth = PyInt(new_depth.v)], msg |-> "depth_set"]
         ELSE [config |-> cfg, msg |-> "depth_out_of_range"]

\* command 6
ChangeFilter(cfg, line) ==
    LET new_filter == Strip(line) IN
    [config |-> [cfg EXCEPT !.filter_substring = new_filter],
     msg |-> IF new_filter # <<>> THEN "filter_set" ELSE "filter_cleared"]

Command1 ==
    /\ pc = "menu"
    /\ out' = Printed(<<"stage1">>)
    /\ UNCHANGED <<argv, pc, exit_status, config, vfs, command_history, vfs_loaded>>

Command2 ==
    /\ pc = "menu"
    /\ \E outcome \in Outcomes(config, config.package_name) :
          LET r == RunStage2(config, outcome) IN
          /\ out' = r.out
          /\ pc' = IF r.raised THEN "crashed" ELSE pc
          /\ exit_status' = IF r.raised THEN UncaughtStatus(r.out.net) ELSE exit_status
    /\ UNCHANGED <<argv, config, vfs, command_history, vfs_loaded>>

Command3(line) ==
    /\ pc = "menu"
    /\ LET r == ChangePackage(config, line) IN
          /\ config' = r.config
          /\ out' = Printed(<<r.msg>>)
    /\ UNCHANGED <<argv, pc, exit_status, vfs, command_history, vfs_loaded>>

Command4 ==
    /\ pc = "menu"
    /\ LET r == ToggleTestMode(config) IN
          /\ config' = r.config
          /\ out' = Printed(r.msgs)
    /\ UNCHANGED <<argv, pc, exit_status, vfs, command_history, vfs_loaded>>

Command5(line) ==
    /\ pc = "menu"
    /\ LET r == ChangeDepth(config, line) IN
          /\ config' = r.config
          /\ out' = Printed(<<r.msg>>)
    /\ UNCHANGED <<argv, pc, exit_status, vfs, command_history, vfs_loaded>>

Command6(line) ==
    /\ pc = "menu"
    /\ LET r == ChangeFilter(config, line) IN
          /\ config' = r.config
          /\ out' = Printed(<<r.msg>>)
    /\ UNCHANGED <<argv, pc, exit_status, vfs, command_history, vfs_loaded>>

\* command 7: f describes the file at the path typed; an empty line loads
\* nothing and load_config is not called, a load that fails prints its own
\* error line before the one of the menu
Command7(f) ==
    /\ pc = "menu"
    /\ LET r == LoadConfig(config, f) IN
          /\ config' = r.config
          /\ out' = Printed(IF r.ok THEN <<"config_loaded">>
                            ELSE IF f.kind = "blank" THEN <<"config_not_loaded">>
                            ELSE <<"config_error", "config_not_loaded">>)
    /\ UNCHANGED <<argv, pc, exit_status, vfs, command_history, vfs_loaded>>

Command0 ==
    /\ pc = "menu"
    /\ pc' = "exited" /\ exit_status' = <<0>>
    /\ out' = Printed(<<"exit">>)
    /\ UNCHANGED <<argv, config, vfs, command_history, vfs_loaded>>

CommandInvalid ==
    /\ pc = "menu"
    /\ out' = Printed(<<"invalid_command">>)
    /\ UNCHANGED <<argv, pc, exit_status, config, vfs, command_history, vfs_loaded>>

\* end of input at the menu prompt or at the prompt of a command: input()
\* raises EOFError, which run_interactive does not catch
EndOfInput ==
    /\ pc = "menu"
    /\ pc' = "crashed" /\ exit_status' = UncaughtStatus("EOFError")
    /\ out' = Printed(<<"traceback">>)
    /\ UNCHANGED <<argv, config, vfs, command_history, vfs_loaded>>

\* Ctrl-C at a prompt of run_interactive: KeyboardInterrupt is not caught
\* either (Ctrl-C during the request of command 2 is an outcome of Command2)
Interrupt ==
    /\ pc = "menu"
    /\ pc' = "crashed" /\ exit_status' = UncaughtStatus("KeyboardInterrupt")
    /\ out' = Printed(<<"traceback">>)
    /\ UNCHANGED <<argv, config, vfs, command_history, vfs_loaded>>

----------------------------------------------------------------------------
(* VirtualFileSystem.  The tree self.root is kept as the set of paths that   *)
(* are directories and the set of paths that are files (a path is the        *)
(* sequence of its parts); the root directory is the empty path.             *)

\* VirtualFileSystem(): empty root, current_path "/", no contents
NewVfs == [dirs |-> {}, files |-> {}, current_path |-> <<>>, file_contents |-> {}]

ProperPrefixes(parts) == {SubSeq(parts, 1, i) : i \in 1..(Len(parts) - 1)}

IsBelow(path, parts) == Len(path) > Len(parts) /\ SubSeq(path, 1, Len(parts)) = parts

\* _add_file: IndexError for a name without a part, TypeError when the walk
\* meets a file where it needs a directory; a directory of the same name is
\* replaced by the file
AddFile(v, parts) ==
    IF parts = <<>> THEN [raised |-> TRUE, vfs |-> v]
    ELSE IF ProperPrefixes(parts) \cap v.files # {} THEN [raised |-> TRUE, vfs |-> v]
    ELSE [raised |-> FALSE,
          vfs |-> [v EXCEPT
              !.dirs  = {d \in (@ \cup ProperPrefixes(parts)) : d # parts /\ ~IsBelow(d, parts)},
              !.files = {f \in @ : ~IsBelow(f, parts)} \cup {parts},
              !.file_contents = @ \cup {parts}]]

\* the loop of load_from_zip over zf.infolist(); names ending in '/' are skipped
RECURSIVE AddEntries(_, _)
AddEntries(v, entries) ==
    IF entries = <<>> THEN [raised |-> FALSE, vfs |-> v]
    ELSE IF Head(entries).is_dir THEN AddEntries(v, Tail(entries))
    ELSE LET r == AddFile(v, Head(entries).parts) IN
         IF r.raised THEN r ELSE AddEntries(r.vfs, Tail(entries))

Entry(parts, is_dir) == [parts |-> parts, is_dir |-> is_dir]

Unreadable(kind) == [kind |-> kind, entries |-> <<>>]

\* what command 9 may be pointed at:
\*   "missing"    no file at the path        "bad_zip"  not a ZIP archive
\*   "bad_base64" b64decode raises           "zip"      an archive with these entries
Archives ==
    {Unreadable("missing"), Unreadable("bad_zip"), Unreadable("bad_base64"),
     [kind |-> "zip", entries |-> <<>>],
     [kind |-> "zip", entries |-> <<Entry(<<"a", "f">>, FALSE), Entry(<<"g">>, FALSE)>>],
     [kind |-> "zip", entries |-> <<Entry(<<"a">>, TRUE), Entry(<<"a", "b", "h">>, FALSE)>>],
     [kind |-> "zip", entries |-> <<Entry(<<"g">>, FALSE), Entry(<<"g", "h">>, FALSE)>>],
     [kind |-> "zip", entries |-> <<Entry(<<"k">>, FALSE), Entry(<<>>, FALSE)>>]}

\* load_from_zip: every failure leaves as RuntimeError
LoadFromZip(v, archive) ==
    IF archive.kind # "zip" THEN [raised |-> TRUE, vfs |-> v]
    ELSE AddEntries([v EXCEPT !.dirs = {}, !.files = {}, !.file_contents = {}],
                    archive.entries)

\* load_vfs: self.vfs is a new VirtualFileSystem before load_from_zip runs
LoadVfs(archive) == LoadFromZip(NewVfs, archive)

\* a path typed at the prompt: absolute or relative, and its parts ("." parts
\* are dropped when PurePosixPath parses it, ".." parts are kept)
PathStr(abs, parts) == [abs |-> abs, parts |-> parts]

\* self.current_path / path_str: the names below "/" of the joined path
JoinPath(current_path, path_str) ==
    IF path_str.abs THEN path_str.parts ELSE current_path \o path_str.parts

\* PurePosixPath.resolve(): the class has no such method, AttributeError
Resolve(path) == [raised |-> TRUE, path |-> path]

\* [p for p in path.parts if p] of an absolute path: "/" is its first part
PathParts(path) == <<"/">> \o path

InTree(v, parts) == parts \in v.dirs \cup v.files

\* _get_node: "dict" for a directory, "none" for a file or a missing name;
\* TypeError when the walk has to look inside a file
GetNode(v, path) ==
    LET parts   == PathParts(path)
        missing == {i \in 1..Len(parts) : ~InTree(v, SubSeq(parts, 1, i))}
    IN  IF missing = {}
        THEN [raised |-> FALSE, node |-> IF parts \in v.dirs THEN "dict" ELSE "none"]
        ELSE LET i == CHOOSE j \in missing : \A k \in missing : j <= k IN
             IF SubSeq(parts, 1, i - 1) \in v.files
             THEN [raised |-> TRUE,  node |-> "none"]
             ELSE [raised |-> FALSE, node |-> "none"]

\* list_dir
ListDir(v, path_str) ==
    LET full_path == Resolve(JoinPath(v.current_path, path_str)) IN
    IF full_path.raised THEN [raised |-> TRUE, vfs |-> v]
    ELSE LET node == GetNode(v, full_path.path) IN
         [raised |-> node.raised \/ node.node # "dict", vfs |-> v]

\* a cd that takes the joined path as it is, without resolving or looking it up
ChangeDirUnchecked(v, path_str) ==
    [raised |-> FALSE,
     vfs |-> [v EXCEPT !.current_path = JoinPath(v.current_path, path_str)]]

\* change_dir
ChangeDir(v, path_str) ==
    LET new_path == Resolve(JoinPath(v.current_path, path_str)) IN
    IF new_path.raised THEN [raised |-> TRUE, vfs |-> v]
    ELSE IF new_path.path = <<>>
         THEN [raised |-> FALSE, vfs |-> [v EXCEPT !.current_path = new_path.path]]
    ELSE LET node == GetNode(v, new_path.path) IN
         IF node.raised \/ node.node # "dict" THEN [raised |-> TRUE, vfs |-> v]
         ELSE [raised |-> FALSE, vfs |-> [v EXCEPT !.current_path = new_path.path]]

\* read_file: file_contents is keyed by str(full_path)
ReadFile(v, filename) ==
    LET full_path == Resolve(JoinPath(v.current_path, filename)) IN
    IF full_path.raised THEN [raised |-> TRUE, vfs |-> v]
    ELSE [raised |-> full_path.path \notin v.file_contents, vfs |-> v]

\* touch: the walk of _add_file over the parts of the resolved path
Touch(v, filename) ==
    LET full_path == Resolve(JoinPath(v.current_path, filename)) IN
    IF full_path.raised THEN [raised |-> TRUE, vfs |-> v]
    ELSE LET parts == PathParts(full_path.path) IN
         IF ProperPrefixes(parts) \cap v.files # {} THEN [raised |-> TRUE, vfs |-> v]
         ELSE [raised |-> FALSE,
               vfs |-> [v EXCEPT
                   !.dirs  = {d \in (@ \cup ProperPrefixes(parts)) :
                                 d # parts /\ ~IsBelow(d, parts)},
                   !.files = {f \in @ : ~IsBelow(f, parts)} \cup {parts},
                   !.file_contents = @ \cup {full_path.path}]]

----------------------------------------------------------------------------
(* The interactive menu: VFS commands, and the VFS shell *)

\* command 8: "not self.vfs" is true only for None
Command8 ==
    /\ pc = "menu"
    /\ IF vfs = <<>>
       THEN pc' = pc /\ out' = Printed(<<"load_vfs_first">>)
       ELSE pc' = "shell" /\ out' = Printed(<<"vfs_shell">>)
    /\ UNCHANGED <<argv, exit_status, config, vfs, command_history, vfs_loaded>>

\* command 9
Command9(archive) ==
    /\ pc = "menu"
    /\ LET r == LoadVfs(archive) IN
          /\ vfs' = <<r.vfs>>
          /\ out' = Printed(<<IF r.raised THEN "vfs_load_error" ELSE "vfs_loaded">>)
          /\ vfs_loaded' = (vfs_loaded \/ ~r.raised)
    /\ UNCHANGED <<argv, pc, exit_status, config, command_history>>

Line(cmd, args) == [cmd |-> cmd, args |-> args]

\* lines typed at the vfs prompt
ShellLines ==
    {Line("ls", <<>>),
     Line("cd", <<PathStr(FALSE, <<"a">>)>>), Line("cd", <<PathStr(FALSE, <<"g">>)>>),
     Line("tac", <<>>), Line("tac", <<PathStr(FALSE, <<"g">>)>>),
     Line("touch", <<>>), Line("touch", <<PathStr(TRUE, <<"a">>)>>),
     Line("history", <<>>), Line("rm", <<>>)}

\* one line of run_vfs_shell other than exit: [vfs, msg, recorded]
ShellRun(v, line) ==
    CASE line.cmd = "ls" ->
            LET r == ListDir(v, IF line.args # <<>> THEN line.args[1] ELSE PathStr(FALSE, <<>>)) IN
            [vfs |-> r.vfs, msg |-> IF r.raised THEN "ls_error" ELSE "ls", recorded |-> TRUE]
      [] line.cmd = "cd" ->
            LET r == ChangeDir(v, IF line.args # <<>> THEN line.args[1] ELSE PathStr(TRUE, <<>>)) IN
            [vfs |-> r.vfs, msg |-> IF r.raised THEN "cd_error" ELSE "cd", recorded |-> TRUE]
      [] line.cmd = "tac" ->
            IF line.args = <<>> THEN [vfs |-> v, msg |-> "tac_needs_file", recorded |-> FALSE]
            ELSE LET r == ReadFile(v, line.args[1]) IN
                 [vfs |-> r.vfs, msg |-> IF r.raised THEN "tac_error" ELSE "tac", recorded |-> TRUE]
      [] line.cmd = "history" ->
            [vfs |-> v, msg |-> "history", recorded |-> TRUE]
      [] line.cmd = "touch" ->
            IF line.args = <<>> THEN [vfs |-> v, msg |-> "touch_needs_file", recorded |-> FALSE]
            ELSE LET r == Touch(v, line.args[1]) IN
                 [vfs |-> r.vfs, msg |-> IF r.raised THEN "touch_error" ELSE "touch_created",
                  recorded |-> TRUE]
      [] OTHER ->
            [vfs |-> v, msg |-> "unknown_command", recorded |-> TRUE]

ShellCommand(line) ==
    /\ pc = "shell"
    /\ LET r == ShellRun(vfs[1], line) IN
          /\ r.recorded => Len(command_history) < MaxHistory
          /\ vfs' = <<r.vfs>>
          /\ out' = Printed(<<r.msg>>)
          /\ command_history' = IF r.recorded THEN Append(command_history, line)
                                ELSE command_history
    /\ UNCHANGED <<argv, pc, exit_status, config, vfs_loaded>>

\* "exit", or end of input
ShellExit ==
    /\ pc = "shell"
    /\ pc' = "menu"
    /\ out' = Printed(<<"shell_left">>)
    /\ UNCHANGED <<argv, exit_status, config, vfs, command_history, vfs_loaded>>

\* Ctrl-C at the vfs prompt: reported, and the shell goes on
ShellInterrupt ==
    /\ pc = "shell"
    /\ out' = Printed(<<"interrupted">>)
    /\ UNCHANGED <<argv, pc, exit_status, config, vfs, command_history, vfs_loaded>>

----------------------------------------------------------------------------
(* The program as a whole *)

Init ==
    /\ argv \in ArgvChoices
    /\ pc = "start"
    /\ exit_status = <<>>
    /\ config = default_config
    /\ vfs = <<>>
    /\ command_history = <<>>
    /\ out = Printed(<<>>)
    /\ vfs_loaded = FALSE

Next ==
    \/ MainNoArguments
    \/ RunCliUsage
    \/ RunCliInteractive
    \/ RunCliFile
    \/ Command1
    \/ Command2
    \/ \E line \in NameInputs : Command3(line)
    \/ Command4
    \/ \E line \in DepthInputs : Command5(line)
    \/ \E line \in FilterInputs : Command6(line)
    \/ \E f \in ConfigFiles : Command7(f)
    \/ Command0
    \/ CommandInvalid
    \/ EndOfInput
    \/ Interrupt

\* the command line, the configuration commands and the analysis
Spec == Init /\ [][Next]_vars

InitVfs == Init /\ argv = <<InteractiveArg>>

NextVfs ==
    \/ RunCliInteractive
    \/ Command8
    \/ \E archive \in Archives : Command9(archive)
    \/ \E line \in ShellLines : ShellCommand(line)
    \/ ShellExit
    \/ ShellInterrupt
    \/ Command0
    \/ EndOfInput
    \/ Interrupt

\* an interactive session with the VFS commands and the VFS shell
SpecVfs == InitVfs /\ [][NextVfs]_vars

----------------------------------------------------------------------------
(* Claims *)

\* the state right after a stage-2 analysis that ran get_direct_dependencies
AfterAnalysis ==
    Said(out, "stage2") /\ ~Said(out, "no_package_name") /\ pc # "crashed"

\* the names the backend of cfg declares for its package, before any filter
DeclaredNames(cfg) ==
    IF cfg.test_mode
    THEN UNION {f.requires : f \in {g \in FsSetupFiles(cfg.test_repository_path) :
                                        g.dir = cfg.package_name /\ g.readable}}
    ELSE LET page == ServedPage(RequestUrl(cfg, cfg.package_name)) IN
         IF page # <<>> THEN page[1].html \cup page[1].ld ELSE {}

\* the backend of cfg has no entry for its package
PackageUnknown(cfg) ==
    IF cfg.test_mode
    THEN \A f \in FsSetupFiles(cfg.test_repository_path) : f.dir # cfg.package_name
    ELSE ServedPage(RequestUrl(cfg, cfg.package_name)) = <<>>

\* C1: with a non-empty filter_substring, get_direct_dependencies returns no
\* name that contains the filter and keeps every other declared name, in
\* network mode and in test mode alike.
C1_FilterExcludes ==
    (AfterAnalysis /\ config.filter_substring # <<>> /\ out.net \in {"ok", "none"})
    => /\ \A dep \in out.deps : ~Contains(config.filter_substring, dep)
       /\ \A dep \in DeclaredNames(config) :
             ~Contains(config.filter_substring, dep) => dep \in out.deps

\* C2: get_direct_dependencies returns the empty list and does not raise when
\* the package is unknown to the backend or declares no dependencies, for the
\* network backend and the fixture backend. An interrupt by the user during
\* the request is no case of the claim.
C2_EmptyForUnknownOrBare ==
    (Said(out, "stage2") /\ ~Said(out, "no_package_name")
        /\ out.net # "KeyboardInterrupt"
        /\ (PackageUnknown(config) \/ DeclaredNames(config) = {}))
    => out.deps = {} /\ pc # "crashed"

\* C3: a failed lookup in network mode (HTTP error, URL error, non-200 status,
\* any other exception) is absorbed: no content, the empty list, no exception
\* reaches the caller and run_stage2 runs to its end. An interrupt by the
\* user (KeyboardInterrupt, no Exception) is no failure of the lookup.
C3_LookupFailureAbsorbed ==
    (Said(out, "stage2") /\ out.net \in {"non200", "HTTPError", "URLError", "Exception"})
    => /\ out.deps = {}
       /\ Said(out, "no_dependencies_found")
       /\ pc \in {"menu", "exited"}
       /\ pc = "exited" => exit_status = <<0>>

C3_Witness ==
    /\ Said(out, "stage2") /\ out.net = "Exception"
    /\ ~config.test_mode /\ out.looked_up = {config.package_name}
    /\ pc = "menu"

\* C4: in CLI mode, when load_config fails on the file given, neither stage
\* runs, no dependency is looked up, and the process exits with status 1.
C4_ConfigErrorFatal ==
    (pc # "start" /\ Len(argv) = 1 /\ argv[1].kind # "interactive"
        /\ ~LoadConfig(default_config, argv[1]).ok)
    => /\ pc = "exited" /\ exit_status = <<1>>
       /\ ~Said(out, "stage1") /\ ~Said(out, "stage2")
       /\ out.looked_up = {} /\ out.net = "none"

C4_Witness ==
    /\ pc = "exited" /\ exit_status = <<1>>
    /\ Len(argv) = 1 /\ argv[1].kind = "dict"
    /\ "max_depth" \in DOMAIN argv[1].m /\ argv[1].m["max_depth"] = PyInt(11)
    /\ Said(out, "load_failed")

\* C5: in every reachable configuration the source of the current mode is set:
\* test_mode implies a non-empty test_repository_path, and network mode a
\* non-empty repository_url.
C5_ModeSourceSet ==
    /\ config.test_mode => config.test_repository_path # <<>>
    /\ ~config.test_mode => config.repository_url # <<>>

\* a file asks for a max_depth that is a number outside 1..10
AsksDepthOutOfRange(f) ==
    /\ "max_depth" \in DOMAIN f.m
    /\ IsInstanceInt(f.m["max_depth"])
    /\ ~(1 <= IntOf(f.m["max_depth"]) /\ IntOf(f.m["max_depth"]) <= 10)

\* C6: max_depth is always an integer between 1 and 10, and a load or a menu
\* change asking for a value outside that range is rejected and changes nothing.
C6_MaxDepthInRange ==
    /\ IsInstanceInt(config.max_depth)
    /\ 1 <= IntOf(config.max_depth) /\ IntOf(config.max_depth) <= 10
    /\ \A line \in DepthInputs :
          (ParseInt(line).ok /\ ~(1 <= ParseInt(line).v /\ ParseInt(line).v <= 10))
          => ChangeDepth(config, line).config = config
    /\ \A f \in ConfigFiles :
          AsksDepthOutOfRange(f) => LoadConfig(config, f) = [ok |-> FALSE, config |-> config]

C6_Witness ==
    /\ pc = "menu" /\ Said(out, "depth_out_of_range")
    /\ config.max_depth = PyInt(10)

\* a file asks for a package_name that is empty or whitespace only
AsksBlankName(f) ==
    /\ "package_name" \in DOMAIN f.m
    /\ f.m["package_name"].t = "str"
    /\ \A i \in 1..Len(f.m["package_name"].v) : IsSpace(f.m["package_name"].v[i])

\* C7: package_name is always non-empty without leading or trailing
\* whitespace, and an empty or whitespace-only name from a file or from
\* command 3 is rejected, the previous name being kept.
C7_PackageNameClean ==
    /\ config.package_name # <<>>
    /\ ~IsSpace(config.package_name[1])
    /\ ~IsSpace(config.package_name[Len(config.package_name)])
    /\ \A line \in NameInputs :
          (\A i \in 1..Len(line) : IsSpace(line[i]))
          => ChangePackage(config, line).config = config
    /\ \A f \in ConfigFiles :
          AsksBlankName(f) => LoadConfig(config, f) = [ok |-> FALSE, config |-> config]

C7_Witness ==
    /\ pc = "menu" /\ Said(out, "package_changed")
    /\ config.package_name = PkgCat

\* C8: the analysis is a traversal bounded by max_depth: the dependencies of a
\* node are fetched exactly when its depth is below max_depth, so the root
\* (depth 0) and each of its dependencies (depth 1) are looked up exactly when
\* 0 < max_depth and 1 < max_depth.
C8_DepthBoundedTraversal ==
    AfterAnalysis
    => /\ (config.package_name \in out.looked_up) <=> (0 < IntOf(config.max_depth))
       /\ \A dep \in out.deps \ {config.package_name} :
             (dep \in out.looked_up) <=> (1 < IntOf(config.max_depth))

\* what a successful load stores for key k given the file's value
Stored(k, value) ==
    CASE k = "package_name"   -> Strip(value.v)
      [] k = "repository_url" -> RStrip(value.v)
      [] k = "max_depth"      -> value
      [] OTHER                -> value.v

\* C9: load_config is all-or-nothing: when it returns False every field is as
\* before the call, also when valid fields precede the invalid one; when it
\* returns True every recognized key of the file has been applied and every
\* other key keeps its value.
C9_LoadAllOrNothing ==
    \A f \in ConfigFiles :
        LET r == LoadConfig(config, f) IN
        /\ ~r.ok => r.config = config
        /\ r.ok => \A k \in Keys :
                      IF k \in DOMAIN f.m THEN r.config[k] = Stored(k, f.m[k])
                      ELSE r.config[k] = config[k]

C9_Witness ==
    /\ pc = "exited" /\ Said(out, "load_failed")
    /\ Len(argv) = 1 /\ argv[1].kind = "dict"
    /\ DOMAIN argv[1].m = {"package_name", "max_depth"}
    /\ argv[1].m["package_name"] = PyStr(<<" ", "a", " ">>)
    /\ argv[1].m["max_depth"] = PyInt(0)
    /\ config = default_config

\* C10: the VFS shell is entered only after a VFS load that completed
\* successfully; before one, command 8 does not start the shell, and a failed
\* load does not make the shell available.
C10_ShellNeedsLoadedVfs ==
    pc = "shell" => vfs_loaded

\* paths handed to the operations of the file system
PathInputs ==
    {PathStr(FALSE, <<>>), PathStr(TRUE, <<>>), PathStr(FALSE, <<"..">>),
     PathStr(FALSE, <<"a">>), PathStr(TRUE, <<"a">>), PathStr(FALSE, <<"a", "f">>),
     PathStr(FALSE, <<"g">>), PathStr(FALSE, <<"g", "h">>), PathStr(FALSE, <<"zz">>)}

\* the path names a node of the tree that is a directory
IsDirectory(v, path) ==
    LET n == GetNode(v, path) IN ~n.raised /\ n.node = "dict"

CurrentPathValid(v) == v.current_path = <<>> \/ IsDirectory(v, v.current_path)

\* C11: whatever operations have run on the file system, current_path is "/"
\* or a directory of the tree; change_dir to a path that is missing or a file
\* raises and leaves current_path as it was, and after a touch the current
\* directory is still "/" or a directory of the tree.
C11_CurrentPathIsDirectory ==
    vfs # <<>> =>
        LET v == vfs[1] IN
        /\ CurrentPathValid(v)
        /\ \A p \in PathInputs :
              LET new_path == JoinPath(v.current_path, p)
                  r == ChangeDir(v, p)
              IN  (new_path # <<>> /\ ~IsDirectory(v, new_path)) =>
                      r.raised /\ r.vfs.current_path = v.current_path
        /\ \A p \in PathInputs : CurrentPathValid(Touch(v, p).vfs)

C11_Witness ==
    /\ pc = "shell" /\ vfs_loaded /\ vfs # <<>>
    /\ vfs[1].dirs # {} /\ vfs[1].files # {}
    /\ vfs[1].current_path = <<>>
    /\ Said(out, "cd_error")
    /\ \E i \in 1..Len(command_history) : command_history[i].cmd = "touch"
    /\ \E i \in 1..Len(command_history) :
          command_history[i] = Line("cd", <<PathStr(FALSE, <<"g">>)>>)

====
